---------------------------- MODULE Spec2Model ----------------------------
(***************************************************************************)
(* A model of the gaze tracker of src/eye_tracker.py: the EyeTracker       *)
(* object's session record (tracking_data), its fixation window state,     *)
(* and the operations __init__, process_frame, update_tracking_data and    *)
(* save_session_data (completing, or ending in a file error); and of the   *)
(* demo of src/demo.py: the GazeVisualizer and the loop of main.           *)
(*                                                                         *)
(* Time.  Frame timestamps are floats in the source.  The model counts     *)
(* time in ticks of 0.05 s, so fixation_duration (0.3 s) is 6 ticks and    *)
(* the timestamps 0.0, 0.1, 0.35, 0.4 are the ticks 0, 2, 7, 8.  For       *)
(* every pair of ticks s <= t below 14 the double-precision test           *)
(* t/20 - s/20 >= 0.3 of the source gives the same answer as t - s >= 6.   *)
(*                                                                         *)
(* Optional values.  Python's None is the empty tuple <<>>.  A gaze point  *)
(* or pupil center is the pair <<x, y>>; an optional timestamp t is the    *)
(* one-element tuple <<t>>.                                                *)
(***************************************************************************)
EXTENDS Integers, Sequences, FiniteSets

VARIABLES
    tracking_data,          \* self.tracking_data: the session record
    last_gaze_point,        \* self.last_gaze_point: None or <<x, y>>
    current_fixation_start, \* self.current_fixation_start: None or <<t>>
    frame_times,            \* self.frame_times: timestamps of all updates
    eye_centers,            \* the list process_frame returned last
    files,                  \* the data directory: filename -> content
    save_result,            \* the string save_session_data returned last
    calls,                  \* history: update_tracking_data calls so far
    low_eye_calls,          \* history: those calls with len(eyes) < 2
    saves,                  \* history: save_session_data calls so far
    save_log,               \* history: one entry per save_session_data call
    tracker,                \* the EyeTracker object: "unborn", "ready",
                            \* or "failed" when __init__ raised
    attributes,             \* the attributes __init__ has set on the object
    eye_cascade,            \* self.eye_cascade: "unset", "loaded", "empty"
    face_cascade,           \* self.face_cascade: "unset", "loaded", "empty"
    made_dir,               \* __init__ has called os.makedirs(data_dir)
    visualizer,             \* the demo's GazeVisualizer object
    pushed,                 \* history: the add_gaze_point calls so far
    demo_pc                 \* the demo loop's position: "read", "key", "done"

vars == <<tracking_data, last_gaze_point, current_fixation_start,
          frame_times, eye_centers, files, save_result, calls,
          low_eye_calls, saves, save_log, tracker, attributes, eye_cascade,
          face_cascade, made_dir, visualizer, pushed, demo_pc>>

tracker_state == <<tracking_data, last_gaze_point, current_fixation_start,
                   frame_times>>

\* What __init__ leaves of the object and of the data directory.
construction == <<tracker, attributes, eye_cascade, face_cascade, made_dir>>

\* The demo's visualizer and main loop.
demo_state == <<visualizer, pushed, demo_pc>>

\* The lists and the frame counter of the session record.
gaze_points == tracking_data.gaze_points

fixations == tracking_data.fixations

blinks == tracking_data.blinks

frame_count == tracking_data.metadata.frame_count

None == <<>>

Some(v) == <<v>>

Last(s) == s[Len(s)]

----------------------------------------------------------------------------
(* Constants of the tracker.                                               *)

fixation_threshold == 30

fixation_duration == 6

session_start == "session_start"

----------------------------------------------------------------------------
(* Pure functions.                                                         *)

\* bool(x) of an optional timestamp: None and 0.0 are both falsy.
truthy(opt) == opt # None /\ opt[1] # 0

\* Variant: a blink only when no eye at all is detected.
detect_blink_no_eyes(eyes) == Len(eyes) < 1

detect_blink(eyes) == Len(eyes) < 2

\* Variant: a displacement of exactly the threshold still counts.
is_fixation_inclusive(current_point, last_point) ==
    IF last_point = None
    THEN FALSE
    ELSE LET dx == current_point[1] - last_point[1]
             dy == current_point[2] - last_point[2]
         IN  dx * dx + dy * dy <= fixation_threshold * fixation_threshold

\* sqrt(dx^2 + dy^2) < threshold, on integers: dx^2 + dy^2 < threshold^2.
is_fixation(current_point, last_point) ==
    IF last_point = None
    THEN FALSE
    ELSE LET dx == current_point[1] - last_point[1]
             dy == current_point[2] - last_point[2]
         IN  dx * dx + dy * dy < fixation_threshold * fixation_threshold

GazeSample(gaze_point, timestamp) ==
    [timestamp |-> timestamp, x |-> gaze_point[1], y |-> gaze_point[2]]

Fixation(start, timestamp, gaze_point) ==
    [start_time |-> start, end_time |-> timestamp,
     x |-> gaze_point[1], y |-> gaze_point[2]]

Blink(timestamp) == [timestamp |-> timestamp]

\* Variant: list.insert(0, record)
prepend(list, record) == <<record>> \o list

\* list.append(record)
append(list, record) == Append(list, record)

\* Variant: the increment is lost.
count_frame_never(metadata) == metadata

\* metadata['frame_count'] += 1
count_frame(metadata) == [metadata EXCEPT !.frame_count = @ + 1]

\* The pupil centers found, in detection order: process_frame's eye_centers.
\* A frame is the list of its eye boxes, each given by what get_eye_center
\* finds in it: a pupil center <<x, y>> or None.
found_centers(frame) == SelectSeq(frame, LAMBDA pupil : pupil # None)

\* Variant: the midpoint is rounded up.
resolve_gaze_rounded(centers) ==
    IF Len(centers) = 2
    THEN <<(centers[1][1] + centers[2][1] + 1) \div 2,
           (centers[1][2] + centers[2][2] + 1) \div 2>>
    ELSE None

\* Variant: with more than two centers the first two are used.
resolve_gaze_first_two(centers) ==
    IF Len(centers) >= 2
    THEN <<(centers[1][1] + centers[2][1]) \div 2,
           (centers[1][2] + centers[2][2]) \div 2>>
    ELSE None

\* Variant: a single center stands for the gaze point.
resolve_gaze_single_eye(centers) ==
    IF Len(centers) = 2
    THEN <<(centers[1][1] + centers[2][1]) \div 2,
           (centers[1][2] + centers[2][2]) \div 2>>
    ELSE IF Len(centers) = 1 THEN centers[1] ELSE None

\* The gaze point process_frame hands to update_tracking_data.
resolve_gaze(centers) ==
    IF Len(centers) = 2
    THEN <<(centers[1][1] + centers[2][1]) \div 2,
           (centers[1][2] + centers[2][2]) \div 2>>
    ELSE None

----------------------------------------------------------------------------
(* The tracker's operations.                                               *)

\* Variant: the duration must exceed the threshold.
commits_strict(gaze_point, timestamp) ==
    /\ gaze_point # None
    /\ is_fixation(gaze_point, last_gaze_point)
    /\ truthy(current_fixation_start)
    /\ timestamp - current_fixation_start[1] > fixation_duration

\* The fixation branch of update_tracking_data commits a record.
commits(gaze_point, timestamp) ==
    /\ gaze_point # None
    /\ is_fixation(gaze_point, last_gaze_point)
    /\ truthy(current_fixation_start)
    /\ timestamp - current_fixation_start[1] >= fixation_duration

\* Variant: a frame without a gaze point closes the window.
next_fixation_start_closing(gaze_point, timestamp) ==
    IF gaze_point = None
    THEN None
    ELSE IF is_fixation(gaze_point, last_gaze_point)
         THEN IF ~truthy(current_fixation_start)
              THEN Some(timestamp)
              ELSE current_fixation_start
         ELSE None

next_fixation_start(gaze_point, timestamp) ==
    IF gaze_point = None
    THEN current_fixation_start
    ELSE IF is_fixation(gaze_point, last_gaze_point)
         THEN IF ~truthy(current_fixation_start)
              THEN Some(timestamp)
              ELSE current_fixation_start
         ELSE None

update_tracking_data(gaze_point, eyes, timestamp) ==
    /\ tracking_data' =
         [tracking_data EXCEPT
            !.gaze_points =
                IF gaze_point # None
                THEN append(@, GazeSample(gaze_point, timestamp))
                ELSE @,
            !.fixations =
                IF commits(gaze_point, timestamp)
                THEN append(@, Fixation(current_fixation_start[1],
                                        timestamp, gaze_point))
                ELSE @,
            !.blinks =
                IF detect_blink(eyes)
                THEN append(@, Blink(timestamp))
                ELSE @,
            !.metadata = count_frame(@)]
    /\ current_fixation_start' = next_fixation_start(gaze_point, timestamp)
    /\ last_gaze_point' =
         IF gaze_point # None THEN gaze_point ELSE last_gaze_point
    /\ frame_times' = append(frame_times, timestamp)
    /\ calls' = calls + 1
    /\ low_eye_calls' = low_eye_calls + (IF Len(eyes) < 2 THEN 1 ELSE 0)

\* A direct call of update_tracking_data.
UpdateTrackingData(gaze_point, eyes, timestamp) ==
    /\ update_tracking_data(gaze_point, eyes, timestamp)
    /\ UNCHANGED <<eye_centers, files, save_result, saves, save_log,
                   construction, demo_state>>

ProcessFrame(frame, timestamp) ==
    /\ update_tracking_data(resolve_gaze(found_centers(frame)), frame,
                            timestamp)
    /\ eye_centers' = found_centers(frame)
    /\ UNCHANGED <<files, save_result, saves, save_log, construction,
                   demo_state>>

\* Variant: open(filename, 'x'), and a file that exists is left as it is.
write_once(name, content) ==
    [n \in DOMAIN files \cup {name} |->
        IF n \in DOMAIN files THEN files[n] ELSE content]

\* open(filename, 'w') and a complete write: the file is created or
\* replaced.
write(name, content) ==
    [n \in DOMAIN files \cup {name} |->
        IF n = name THEN content ELSE files[n]]

write2(name1, content1, name2, content2) ==
    [n \in DOMAIN files \cup {name1, name2} |->
        IF n = name2 THEN content2
        ELSE IF n = name1 THEN content1 ELSE files[n]]

\* The files save_session_data opens for a format.
opens(format) ==
    IF format = "json" THEN 1 ELSE IF format = "csv" THEN 2 ELSE 0

\* The record of one save_session_data call: its format, the wall clock
\* reading it took, the frames processed before it, the files it opened,
\* whether a file operation failed in it, and whether it raised the error
\* to its caller instead of returning the reading.
SaveCall(format, timestamp, opened, error, raised) ==
    [format |-> format, timestamp |-> timestamp,
     frame_count |-> frame_count, opened |-> opened, error |-> error,
     raised |-> raised]

\* Variant: a format that is not 'csv' is saved as json.
SaveSessionData_default_json(format, timestamp) ==
    /\ files' =
         IF format = "csv"
         THEN write2(<<"gaze_points", timestamp, "csv">>,
                     tracking_data.gaze_points,
                     <<"fixations", timestamp, "csv">>,
                     tracking_data.fixations)
         ELSE write(<<"eye_tracking_session", timestamp, "json">>,
                    tracking_data)
    /\ save_result' = timestamp
    /\ saves' = saves + 1
    /\ save_log' = append(save_log, SaveCall(format, timestamp,
                                             opens(format), FALSE, FALSE))
    /\ UNCHANGED <<tracker_state, eye_centers, calls, low_eye_calls,
                   construction, demo_state>>

\* Variant: the session lists are flushed once they are written.
SaveSessionData_flush(format, timestamp) ==
    /\ files' =
         IF format = "json"
         THEN write(<<"eye_tracking_session", timestamp, "json">>,
                    tracking_data)
         ELSE IF format = "csv"
         THEN write2(<<"gaze_points", timestamp, "csv">>,
                     tracking_data.gaze_points,
                     <<"fixations", timestamp, "csv">>,
                     tracking_data.fixations)
         ELSE files
    /\ tracking_data' =
         [tracking_data EXCEPT !.gaze_points = <<>>, !.fixations = <<>>,
                               !.blinks = <<>>]
    /\ save_result' = timestamp
    /\ saves' = saves + 1
    /\ save_log' = append(save_log, SaveCall(format, timestamp,
                                             opens(format), FALSE, FALSE))
    /\ UNCHANGED <<last_gaze_point, current_fixation_start, frame_times,
                   eye_centers, calls, low_eye_calls, construction,
                   demo_state>>

SaveSessionData(format, timestamp) ==
    /\ files' =
         IF format = "json"
         THEN write(<<"eye_tracking_session", timestamp, "json">>,
                    tracking_data)
         ELSE IF format = "csv"
         THEN write2(<<"gaze_points", timestamp, "csv">>,
                     tracking_data.gaze_points,
                     <<"fixations", timestamp, "csv">>,
                     tracking_data.fixations)
         ELSE files
    /\ save_result' = timestamp
    /\ saves' = saves + 1
    /\ save_log' = append(save_log, SaveCall(format, timestamp,
                                             opens(format), FALSE, FALSE))
    /\ UNCHANGED <<tracker_state, eye_centers, calls, low_eye_calls,
                   construction, demo_state>>

\* What a write that fails part-way leaves in a file opened with 'w': of
\* the session document its beginning, of a csv file its first rows.
partial(name, content, rows) ==
    IF name[1] = "eye_tracking_session"
    THEN [session_start |-> content.session_start]
    ELSE [i \in 1..(IF rows < Len(content) THEN rows ELSE Len(content))
            |-> content[i]]

\* The data directory after a save in which a file operation fails: the
\* operation is the open() or the write of the file numbered `failing`
\* among those the format opens; a failing write leaves `rows` rows.
failed_files(format, timestamp, failing, operation, rows) ==
    LET session == <<"eye_tracking_session", timestamp, "json">>
        gaze == <<"gaze_points", timestamp, "csv">>
        fix == <<"fixations", timestamp, "csv">>
    IN  IF format = "json"
        THEN IF operation = "open"
             THEN files
             ELSE write(session, partial(session, tracking_data, rows))
        ELSE IF failing = 1
        THEN IF operation = "open"
             THEN files
             ELSE write(gaze, partial(gaze, tracking_data.gaze_points, rows))
        ELSE IF operation = "open"
             THEN write(gaze, tracking_data.gaze_points)
             ELSE write2(gaze, tracking_data.gaze_points,
                         fix, partial(fix, tracking_data.fixations, rows))

\* Variant: the error is caught inside save_session_data, which returns
\* the timestamp as after a complete save.
SaveSessionDataFails_caught(format, timestamp, failing, operation, rows) ==
    /\ format \in {"json", "csv"}
    /\ failing \in 1..opens(format)
    /\ files' = failed_files(format, timestamp, failing, operation, rows)
    /\ save_result' = timestamp
    /\ saves' = saves + 1
    /\ save_log' = append(save_log, SaveCall(format, timestamp, failing,
                                             TRUE, FALSE))
    /\ UNCHANGED <<tracker_state, eye_centers, calls, low_eye_calls,
                   construction, demo_state>>

\* save_session_data when open() or a write raises OSError: there is no
\* try/except in it, so the with-block closes the file and the error
\* leaves the call; nothing is returned and later files are not opened.
SaveSessionDataFails(format, timestamp, failing, operation, rows) ==
    /\ format \in {"json", "csv"}
    /\ failing \in 1..opens(format)
    /\ files' = failed_files(format, timestamp, failing, operation, rows)
    /\ save_result' = save_result
    /\ saves' = saves + 1
    /\ save_log' = append(save_log, SaveCall(format, timestamp, failing,
                                             TRUE, TRUE))
    /\ UNCHANGED <<tracker_state, eye_centers, calls, low_eye_calls,
                   construction, demo_state>>

----------------------------------------------------------------------------
(* The demo: GazeVisualizer and the loop of main.                          *)

history_size == 50

\* time.time() when the loop starts, in ticks.
start_time == 0

\* deque(maxlen=history_size).append(point)
push(history, point) ==
    IF Len(history) < history_size
    THEN Append(history, point)
    ELSE Append(Tail(history), point)

\* GazeVisualizer.add_gaze_point on the visualizer record v; now is the
\* clock reading the log entry and the blink time are stamped with.
add_gaze_point(v, point, fixation, blink, now) ==
    IF point # None
    THEN [v EXCEPT
            !.history = push(@, point),
            !.log_entries = append(@, <<now, point>>),
            !.fixation_points = IF fixation THEN append(@, point) ELSE @,
            !.blink_times = IF blink THEN append(@, now) ELSE @,
            !.stats = [@ EXCEPT
                !.fixation_count = IF fixation THEN @ + 1 ELSE @,
                !.blink_count = IF blink THEN @ + 1 ELSE @]]
    ELSE v

\* One pass of the loop from cap.read() to the drawing: the frame is
\* processed, and when two centers came back the gaze point is computed
\* again and pushed to the visualizer, with flags taken from the tracker
\* as process_frame left it.
DemoFrame(frame, timestamp) ==
    /\ demo_pc = "read"
    /\ update_tracking_data(resolve_gaze(found_centers(frame)), frame,
                            timestamp)
    /\ eye_centers' = found_centers(frame)
    /\ LET timed == [visualizer EXCEPT
                        !.stats.tracking_duration = timestamp - start_time]
           gaze_point == <<(eye_centers'[1][1] + eye_centers'[2][1]) \div 2,
                           (eye_centers'[1][2] + eye_centers'[2][2]) \div 2>>
           fixation == IF last_gaze_point' # None
                       THEN is_fixation(gaze_point, last_gaze_point')
                       ELSE FALSE
           blink == detect_blink(eye_centers')
       IN  IF Len(eye_centers') = 2
           THEN /\ visualizer' = add_gaze_point(timed, gaze_point, fixation,
                                                blink, timestamp)
                /\ pushed' = Append(pushed,
                                    [point |-> gaze_point,
                                     is_fixation |-> fixation,
                                     is_blink |-> blink])
           ELSE /\ visualizer' = timed
                /\ pushed' = pushed
    /\ demo_pc' = "key"
    /\ UNCHANGED <<files, save_result, saves, save_log, construction>>

\* save_session_data(format='json') and then (format='csv'), as main
\* calls them, each with its own reading of the wall clock.
demo_saves(reading1, reading2) ==
    /\ files' =
         LET session == <<"eye_tracking_session", reading1, "json">>
             gaze == <<"gaze_points", reading2, "csv">>
             fix == <<"fixations", reading2, "csv">>
         IN  [n \in DOMAIN files \cup {session, gaze, fix} |->
                IF n = session THEN tracking_data
                ELSE IF n = gaze THEN tracking_data.gaze_points
                ELSE IF n = fix THEN tracking_data.fixations
                ELSE files[n]]
    /\ save_result' = reading2
    /\ saves' = saves + 2
    /\ save_log' = append(append(save_log,
                                 SaveCall("json", reading1, 1, FALSE, FALSE)),
                          SaveCall("csv", reading2, 2, FALSE, FALSE))

\* The key handling of one pass: 's' saves and goes on, 'q' leaves the
\* loop for the final save, any other key goes on.
DemoKey(key, reading1, reading2) ==
    /\ demo_pc = "key"
    /\ IF key \in {"s", "q"}
       THEN demo_saves(reading1, reading2)
       ELSE UNCHANGED <<files, save_result, saves, save_log>>
    /\ demo_pc' = IF key = "q" THEN "done" ELSE "read"
    /\ UNCHANGED <<tracker_state, eye_centers, calls, low_eye_calls,
                   construction, visualizer, pushed>>

\* cap.read() fails: the loop is left for the final save.
DemoReadFails(reading1, reading2) ==
    /\ demo_pc = "read"
    /\ demo_saves(reading1, reading2)
    /\ demo_pc' = "done"
    /\ UNCHANGED <<tracker_state, eye_centers, calls, low_eye_calls,
                   construction, visualizer, pushed>>

----------------------------------------------------------------------------
(* Initial state: the tracker after __init__, the visualizer after its     *)
(* own, the demo at the head of its loop.                                  *)

\* The attributes of a constructed tracker.
CascadeAttributes == {"eye_cascade", "face_cascade"}

SessionAttributes ==
    {"data_dir", "tracking_data", "last_gaze_point", "fixation_threshold",
     "fixation_duration", "current_fixation_start", "frame_times"}

AllAttributes == CascadeAttributes \cup SessionAttributes

\* GazeVisualizer.__init__ (the log entry texts and blink times are kept
\* as the points and counters they are made from).
GazeVisualizer ==
    [history |-> <<>>,
     log_entries |-> <<>>,
     fixation_points |-> <<>>,
     blink_times |-> <<>>,
     stats |-> [fixation_count |-> 0, blink_count |-> 0,
                tracking_duration |-> 0]]

\* The session record __init__ builds.
new_session ==
    [session_start |-> session_start,
     gaze_points |-> <<>>,
     fixations |-> <<>>,
     blinks |-> <<>>,
     metadata |-> [frame_count |-> 0, detection_rate |-> 0,
                   avg_pupil_size |-> 0]]

\* Variant: only the eye cascade is verified.
EyeTrackerInit_face_unchecked(eye_loads, face_loads) ==
    /\ tracker = "unborn"
    /\ eye_cascade' = IF eye_loads THEN "loaded" ELSE "empty"
    /\ face_cascade' = IF face_loads THEN "loaded" ELSE "empty"
    /\ IF eye_loads
       THEN /\ tracker' = "ready"
            /\ attributes' = AllAttributes
            /\ made_dir' = TRUE
            /\ tracking_data' = new_session
            /\ last_gaze_point' = None
            /\ current_fixation_start' = None
            /\ frame_times' = <<>>
       ELSE /\ tracker' = "failed"
            /\ attributes' = CascadeAttributes
            /\ UNCHANGED <<made_dir, tracker_state>>
    /\ UNCHANGED <<eye_centers, files, save_result, calls, low_eye_calls,
                   saves, save_log, demo_state>>

\* EyeTracker.__init__: both cascades are loaded and assigned, then
\* verified; a ValueError leaves __init__ before data_dir, the directory
\* and the session are set up, and the caller gets no object.
EyeTrackerInit(eye_loads, face_loads) ==
    /\ tracker = "unborn"
    /\ eye_cascade' = IF eye_loads THEN "loaded" ELSE "empty"
    /\ face_cascade' = IF face_loads THEN "loaded" ELSE "empty"
    /\ IF eye_loads /\ face_loads
       THEN /\ tracker' = "ready"
            /\ attributes' = AllAttributes
            /\ made_dir' = TRUE
            /\ tracking_data' = new_session
            /\ last_gaze_point' = None
            /\ current_fixation_start' = None
            /\ frame_times' = <<>>
       ELSE /\ tracker' = "failed"
            /\ attributes' = CascadeAttributes
            /\ UNCHANGED <<made_dir, tracker_state>>
    /\ UNCHANGED <<eye_centers, files, save_result, calls, low_eye_calls,
                   saves, save_log, demo_state>>

\* Before EyeTracker(...) is called: no object, no attribute.  The
\* variables of attributes not yet set hold None.
InitUnborn ==
    /\ tracking_data = None
    /\ last_gaze_point = None
    /\ current_fixation_start = None
    /\ frame_times = None
    /\ eye_centers = <<>>
    /\ files = [n \in {} |-> None]
    /\ save_result = ""
    /\ calls = 0
    /\ low_eye_calls = 0
    /\ saves = 0
    /\ save_log = <<>>
    /\ tracker = "unborn"
    /\ attributes = {}
    /\ eye_cascade = "unset"
    /\ face_cascade = "unset"
    /\ made_dir = FALSE
    /\ visualizer = GazeVisualizer
    /\ pushed = <<>>
    /\ demo_pc = "read"

Init ==
    /\ tracking_data =
         [session_start |-> session_start,
          gaze_points |-> <<>>,
          fixations |-> <<>>,
          blinks |-> <<>>,
          metadata |-> [frame_count |-> 0, detection_rate |-> 0,
                        avg_pupil_size |-> 0]]
    /\ last_gaze_point = None
    /\ current_fixation_start = None
    /\ frame_times = <<>>
    /\ eye_centers = <<>>
    /\ files = [n \in {} |-> None]
    /\ save_result = ""
    /\ calls = 0
    /\ low_eye_calls = 0
    /\ saves = 0
    /\ save_log = <<>>
    /\ tracker = "ready"
    /\ attributes = AllAttributes
    /\ eye_cascade = "loaded"
    /\ face_cascade = "loaded"
    /\ made_dir = TRUE
    /\ visualizer = GazeVisualizer
    /\ pushed = <<>>
    /\ demo_pc = "read"

----------------------------------------------------------------------------
(* Bounds and inputs.                                                      *)

MaxFrames == 4

MaxSessionCalls == 3

MaxSaves == 2

MaxFaults == 1

\* Frame timestamps in ticks: 0.0 s, 0.1 s, 0.35 s, 0.4 s.
Timestamps == {0, 2, 7, 8}

\* Timestamps do not decrease from one update to the next.
LaterTimestamps(ts) ==
    {t \in ts : frame_times = <<>> \/ t >= Last(frame_times)}

\* (130,100) is exactly 30 px from (100,100) and less from the other two.
GazePoints == {<<100, 100>>, <<105, 102>>, <<103, 99>>, <<130, 100>>}

\* Eye boxes (x, y, w, h) as detect_eyes returns them.
OneEye == << <<80, 90, 30, 30>> >>

TwoEyes == << <<80, 90, 30, 30>>, <<120, 90, 30, 30>> >>

\* Pupil centers: the midpoint of P1 and P2 is (100, 100.5), of P1 and P3
\* (130, 100.5), of P2 and P3 (140, 101).
P1 == <<90, 100>>

P2 == <<110, 101>>

P3 == <<170, 101>>

\* Frames by the pupil found in each eye box, in detection order.
\* Only a frame of three boxes gives the centers <<P2, P3>>.
Frames ==
    { <<>>, <<P1>>, <<P1, None>>, <<P1, P2>>, <<P1, P3>>,
      <<P1, P2, P3>>, <<P2, None, P3>>, <<P1, P2, None>> }

SessionFrames == { <<>>, <<P1>>, <<P1, P2>> }

SessionTimestamps == {2, 8}

Formats == {"json", "csv", "xml"}

\* datetime.now().strftime('%Y%m%d_%H%M%S') at two successive seconds.
WallClock == <<"20240101_120000", "20240101_120001">>

\* The readings the wall clock can give at or after the last one given.
LaterReadings ==
    {WallClock[i] : i \in {j \in 1..Len(WallClock) :
        \A k \in 1..Len(WallClock) : WallClock[k] = save_result => k <= j}}

----------------------------------------------------------------------------
(* Specifications.                                                         *)

\* Direct calls of update_tracking_data.
NextUpdate ==
    /\ calls < MaxFrames
    /\ \E gaze_point \in GazePoints \cup {None}, eyes \in {OneEye, TwoEyes},
          timestamp \in LaterTimestamps(Timestamps) :
            UpdateTrackingData(gaze_point, eyes, timestamp)

SpecUpdate == Init /\ [][NextUpdate]_vars

\* Frames through process_frame.
NextFrames ==
    /\ calls < MaxFrames
    /\ \E frame \in Frames, timestamp \in LaterTimestamps(Timestamps) :
            ProcessFrame(frame, timestamp)

SpecFrames == Init /\ [][NextFrames]_vars

\* A session: frames, direct updates and saves in any order.
SessionFrame ==
    /\ calls < MaxSessionCalls
    /\ \E frame \in SessionFrames,
          timestamp \in LaterTimestamps(SessionTimestamps) :
            ProcessFrame(frame, timestamp)

SessionUpdate ==
    /\ calls < MaxSessionCalls
    /\ \E timestamp \in LaterTimestamps(SessionTimestamps) :
          \/ UpdateTrackingData(None, TwoEyes, timestamp)
          \/ UpdateTrackingData(<<100, 100>>, OneEye, timestamp)

SessionSave ==
    /\ saves < MaxSaves
    /\ \E format \in Formats, timestamp \in LaterReadings :
            SaveSessionData(format, timestamp)

Next == SessionFrame \/ SessionUpdate \/ SessionSave

Spec == Init /\ [][Next]_vars

\* The saves so far in which a file operation failed.
faults == Len(SelectSeq(save_log, LAMBDA call : call.error))

\* A session in which file operations may fail.
SessionSaveFails ==
    /\ saves < MaxSaves
    /\ faults < MaxFaults
    /\ \E format \in Formats, timestamp \in LaterReadings,
          failing \in {1, 2}, operation \in {"open", "write"},
          rows \in {0, 1} :
            SaveSessionDataFails(format, timestamp, failing, operation,
                                 rows)

\* Frames with a gaze point, so that the files have rows to lose.
FaultyFrame ==
    /\ calls < MaxSessionCalls
    /\ \E timestamp \in LaterTimestamps(SessionTimestamps) :
            ProcessFrame(<<P1, P2>>, timestamp)

NextFaulty == FaultyFrame \/ SessionSave \/ SessionSaveFails

SpecFaulty == Init /\ [][NextFaulty]_vars

\* Construction, then frames on the tracker the constructor returned.
Construct ==
    \E eye_loads \in BOOLEAN, face_loads \in BOOLEAN :
        EyeTrackerInit(eye_loads, face_loads)

TrackerFrame ==
    /\ tracker = "ready"
    /\ NextFrames

NextInit == Construct \/ TrackerFrame

SpecInit == InitUnborn /\ [][NextInit]_vars

\* The demo loop.
DemoFrames == SessionFrames \cup { <<P1, P3>> }

Keys == {"s", "q", "other"}

\* The readings the wall clock can give at or after a given one.
ReadingsFrom(reading) ==
    {WallClock[j] : j \in {i \in 1..Len(WallClock) :
        \A k \in 1..Len(WallClock) : WallClock[k] = reading => k <= i}}

DemoLoopFrame ==
    /\ calls < MaxSessionCalls
    /\ \E frame \in DemoFrames,
          timestamp \in LaterTimestamps(SessionTimestamps) :
            DemoFrame(frame, timestamp)

DemoLoopKey ==
    \E key \in Keys, reading1 \in LaterReadings :
        \E reading2 \in ReadingsFrom(reading1) :
            DemoKey(key, reading1, reading2)

DemoLoopEnd ==
    \E reading1 \in LaterReadings :
        \E reading2 \in ReadingsFrom(reading1) :
            DemoReadFails(reading1, reading2)

NextDemo == DemoLoopFrame \/ DemoLoopKey \/ DemoLoopEnd

SpecDemo == Init /\ [][NextDemo]_vars

----------------------------------------------------------------------------
(* Properties.                                                             *)

\* Two recorded samples (or fixations) less than 30 px apart.
within_30px(a, b) ==
    (a.x - b.x) * (a.x - b.x) + (a.y - b.y) * (a.y - b.y) < 30 * 30

\* Sample i of the list is less than 30 px from the sample before it.
steady(samples, i) == within_30px(samples[i], samples[i - 1])

IsPrefix(s, t) == Len(s) <= Len(t) /\ SubSeq(t, 1, Len(s)) = s

\* Every update so far carried two eyes and a gaze point less than 30 px
\* from the one before.
SteadySequence ==
    /\ calls >= 1
    /\ low_eye_calls = 0
    /\ Len(gaze_points) = calls
    /\ \A i \in 2..Len(gaze_points) : steady(gaze_points, i)

\* (100,100) at 0.0 s, (105,102) at 0.1 s, (103,99) at 0.35 s, two eyes each.
Scenario ==
    /\ calls = 3
    /\ low_eye_calls = 0
    /\ gaze_points = << [timestamp |-> 0, x |-> 100, y |-> 100],
                        [timestamp |-> 2, x |-> 105, y |-> 102],
                        [timestamp |-> 7, x |-> 103, y |-> 99] >>

C2_Step ==
    /\ fixations' # fixations =>
         LET committed == Last(fixations')
             n == Len(gaze_points')
         IN  /\ fixations' = Append(fixations, committed)
             /\ gaze_points' # gaze_points
             /\ committed.end_time = gaze_points'[n].timestamp
             /\ committed.end_time - committed.start_time >= 6
             /\ \E j \in 2..(n - 1) :
                  /\ gaze_points'[j].timestamp = committed.start_time
                  /\ \A i \in j..n : steady(gaze_points', i)
    /\ ( /\ gaze_points' # gaze_points
         /\ gaze_points # <<>>
         /\ ~within_30px(Last(gaze_points'), Last(gaze_points)) )
       => current_fixation_start' = None /\ fixations' = fixations

\* C2: a fixation record appended by an update spans at least 0.3 s, and
\* every gaze sample from the one that opened the window (timestamp
\* start_time) up to the committing one is less than 30 px from the sample
\* before it; a gaze sample 30 px or more from the previous one sets
\* current_fixation_start to None and appends no fixation.
C2_FixationCommit == [][C2_Step]_vars

\* A fixation committed after an earlier jump of 30 px or more.
C2_Witness ==
    /\ Len(fixations) >= 1
    /\ \E i \in 2..Len(gaze_points) :
         /\ ~steady(gaze_points, i)
         /\ gaze_points[i].timestamp <= fixations[1].start_time

\* C3: the number of blink records equals the number of updates whose eye
\* list had fewer than two entries, with or without a gaze point, saves
\* interleaved; it is 0 when every update had two eyes or more.
C3_BlinkCount == Len(blinks) = low_eye_calls

\* Saved at least once; one update recorded both a gaze sample and a
\* blink, another had two eyes.
C3_Witness ==
    /\ saves >= 1
    /\ low_eye_calls >= 2
    /\ calls > low_eye_calls
    /\ Len(gaze_points) + Len(blinks) > calls

\* C4: frame_count equals the number of update_tracking_data calls made,
\* whatever each call carried, and a save does not change it.
C4_FrameCount ==
    /\ [](frame_count = calls)
    /\ [][saves' # saves => frame_count' = frame_count]_vars

\* Updates with and without a gaze point, and a save, have happened.
C4_Witness ==
    /\ saves >= 1
    /\ calls >= 2
    /\ Len(gaze_points) >= 1
    /\ Len(gaze_points) < calls

\* The floor of the midpoint of two pupil centers.
midpoint(c1, c2) == <<(c1[1] + c2[1]) \div 2, (c1[2] + c2[2]) \div 2>>

\* The step records gaze point p as the sample of the frame just processed.
hands_gaze(p) ==
    /\ gaze_points' = Append(gaze_points,
                             [timestamp |-> Last(frame_times'),
                              x |-> p[1], y |-> p[2]])
    /\ last_gaze_point' = p

\* The step hands no gaze point to the tracker.
hands_none ==
    /\ gaze_points' = gaze_points
    /\ last_gaze_point' = last_gaze_point
\* What C5 requires of one step.
C5_Step ==
    calls' # calls =>
        IF Len(eye_centers') = 2
        THEN hands_gaze(midpoint(eye_centers'[1], eye_centers'[2]))
        ELSE hands_none

\* C5: the gaze point process_frame hands to the tracker is None when 0,
\* 1 or 3 and more pupil centers are found, and the floor of the midpoint
\* of the two centers when exactly 2 are found.
C5_GazeResolution == [][C5_Step]_vars

\* Centers (90,100) and (110,101) gave the gaze point (100,100), and an
\* earlier frame gave none.
C5_Witness ==
    /\ eye_centers = <<P1, P2>>
    /\ last_gaze_point = <<100, 100>>
    /\ Last(gaze_points) = [timestamp |-> Last(frame_times),
                            x |-> 100, y |-> 100]
    /\ Len(gaze_points) < calls
\* What C6 as stated requires of one step.
C6_OriginalStep ==
    \A frame \in Frames, timestamp \in Timestamps :
        ProcessFrame(frame, timestamp) /\ Len(frame) > 2 =>
            IF frame[1] # None /\ frame[2] # None
            THEN hands_gaze(midpoint(frame[1], frame[2]))
            ELSE hands_none

\* C6 as stated: a frame of more than two eye boxes gets the gaze point
\* its first two boxes alone would give; the other boxes neither prevent
\* nor alter it.
C6_Original == [][C6_OriginalStep]_vars
\* What C6 amended requires of one step.
C6_AmendedStep ==
    \A frame \in Frames, timestamp \in Timestamps :
        ProcessFrame(frame, timestamp) /\ Len(frame) > 2 =>
            LET with_pupil == {i \in 1..Len(frame) : frame[i] # None}
            IN  IF Cardinality(with_pupil) = 2
                THEN \E i, j \in with_pupil :
                        i < j /\ hands_gaze(midpoint(frame[i], frame[j]))
                ELSE hands_none

\* C6 amended: a frame of more than two eye boxes gets a gaze point only
\* when exactly two of its boxes yield a pupil center, and then from those
\* two, whichever boxes they are; with three or more centers it gets none.
\* A gaze point is never computed from more than two centers.
C6_Amended == [][C6_AmendedStep]_vars

\* The first and third of three boxes gave the gaze point (140,101).
C6_Witness ==
    /\ eye_centers = <<P2, P3>>
    /\ last_gaze_point = <<140, 101>>
    /\ Last(gaze_points).x = 140
    /\ Last(gaze_points).y = 101
\* What C7 requires of one step.
C7_Step ==
    ( /\ gaze_points' # gaze_points
      /\ gaze_points # <<>>
      /\ within_30px(Last(gaze_points'), Last(gaze_points))
      /\ current_fixation_start # None
      /\ Last(gaze_points').timestamp - current_fixation_start[1] >= 6 )
    => /\ fixations' =
            Append(fixations,
                   [start_time |-> current_fixation_start[1],
                    end_time |-> Last(gaze_points').timestamp,
                    x |-> Last(gaze_points').x,
                    y |-> Last(gaze_points').y])
       /\ current_fixation_start' = current_fixation_start

\* C7 as stated: with a window open since s, a gaze sample less than 30 px
\* from its predecessor and at least 0.3 s after s appends exactly one
\* fixation record (s, the sample's timestamp and coordinates) and leaves
\* the window open since s.
C7_Recommit == [][C7_Step]_vars

\* The content a file of this name holds when it is the full history.
full_history(name) ==
    IF name[1] = "eye_tracking_session" THEN tracking_data
    ELSE IF name[1] = "gaze_points" THEN gaze_points
    ELSE fixations

\* The number of records in a file.
records(name, content) ==
    IF name[1] = "eye_tracking_session"
    THEN Len(content.gaze_points) + Len(content.fixations)
         + Len(content.blinks)
    ELSE Len(content)
\* What C8 requires of one step.
C8_Step ==
    saves' # saves =>
        /\ UNCHANGED <<tracking_data, last_gaze_point,
                       current_fixation_start, frame_times>>
        /\ \A n \in DOMAIN files' :
             \/ n \in DOMAIN files /\ files'[n] = files[n]
             \/ /\ files'[n] = full_history(n)
                /\ \A m \in DOMAIN files :
                     m[1] = n[1] =>
                        records(m, files[m]) <= records(n, files'[n])

\* C8: a save leaves the session and the tracker state as they were; a
\* file it writes holds the full history so far, and no fewer records
\* than any file of the same kind written before.
C8_SavePreserves == [][C8_Step]_vars

\* Two json files of one session: the later one holds the whole session,
\* a fixation included, the earlier one fewer records.
C8_Witness ==
    \E n, m \in DOMAIN files :
        /\ n[1] = "eye_tracking_session"
        /\ m[1] = "eye_tracking_session"
        /\ files[m] = tracking_data
        /\ Len(fixations) >= 1
        /\ records(n, files[n]) < records(m, files[m])
\* What C9 requires of one step.
C9_Step ==
    /\ IsPrefix(gaze_points, gaze_points')
    /\ IsPrefix(fixations, fixations')
    /\ IsPrefix(blinks, blinks')

\* C9: every step leaves each of the three lists with its former value as
\* a prefix.
C9_AppendOnly == [][C9_Step]_vars

\* All three lists hold records and the session has been saved.
C9_Witness ==
    /\ Len(gaze_points) >= 2
    /\ Len(fixations) >= 1
    /\ Len(blinks) >= 1
    /\ saves >= 1
\* What C10 requires of one step.
C10_Step ==
    /\ low_eye_calls' # low_eye_calls =>
         /\ blinks' = Append(blinks, [timestamp |-> Last(frame_times')])
         /\ gaze_points' = gaze_points
         /\ fixations' = fixations
    /\ ~(gaze_points' # gaze_points /\ blinks' # blinks)

\* What C10 requires of every state.
C10_State ==
    /\ Len(gaze_points) + Len(blinks) <= frame_count
    /\ low_eye_calls = calls =>
         /\ Len(blinks) = calls
         /\ gaze_points = <<>>
         /\ fixations = <<>>

\* C10: a frame of fewer than two eye boxes appends exactly one blink and
\* no gaze sample or fixation; no frame records both a gaze sample and a
\* blink; samples plus blinks never exceed frame_count; frames of fewer
\* than two boxes only give as many blinks and nothing else.
C10_BlinkFrames == []C10_State /\ [][C10_Step]_vars

\* Three frames of one eye box each: three blinks and nothing else.
C10_Witness ==
    /\ calls = 3
    /\ low_eye_calls = 3
    /\ eye_centers = <<P1>>
    /\ Len(blinks) = 3
    /\ gaze_points = <<>>
    /\ fixations = <<>>


\* The filenames a save of the given format at the given reading uses.
filenames(format, timestamp) ==
    IF format = "json"
    THEN {<<"eye_tracking_session", timestamp, "json">>}
    ELSE IF format = "csv"
    THEN {<<"gaze_points", timestamp, "csv">>,
          <<"fixations", timestamp, "csv">>}
    ELSE {}

\* What C11 requires of one step: a save that follows a save of the same
\* format at the same reading.
C11_Step ==
    saves' # saves =>
        LET later == Last(save_log')
        IN  \A i \in 1..Len(save_log) :
              ( /\ later.format \in {"json", "csv"}
                /\ save_log[i].format = later.format
                /\ save_log[i].timestamp = later.timestamp )
              => /\ filenames(later.format, later.timestamp)
                      \subseteq DOMAIN files
                 /\ DOMAIN files' = DOMAIN files
                 /\ ~later.error /\ ~later.raised
                 /\ \A n \in filenames(later.format, later.timestamp) :
                       files'[n] = full_history(n)'
                 /\ \A n \in DOMAIN files \ filenames(later.format,
                                                       later.timestamp) :
                       files'[n] = files[n]
                 /\ save_result = save_log[i].timestamp
                 /\ save_result' = save_result

\* C11: two saves of the same format within one wall-clock second use the
\* same filenames; the second replaces the first one's files without an
\* error, the files then hold the session as it is at the second call, and
\* both calls return the same timestamp string.
C11_SameSecondOverwrite == [][C11_Step]_vars

\* Two saves of one format at one reading with a frame between them: the
\* only files are those of that reading, and they hold the later session.
C11_Witness ==
    /\ Len(save_log) = 2
    /\ save_log[1].format = save_log[2].format
    /\ save_log[1].format \in {"json", "csv"}
    /\ save_log[1].timestamp = save_log[2].timestamp
    /\ save_log[1].frame_count < save_log[2].frame_count
    /\ save_log[2].frame_count = frame_count
    /\ Len(gaze_points) >= 1
    /\ DOMAIN files = filenames(save_log[2].format, save_log[2].timestamp)
    /\ \A n \in DOMAIN files : files[n] = full_history(n)
    /\ save_result = save_log[1].timestamp


\* What C12 requires of one step: a save in which a file operation fails.
C12_Step ==
    (saves' # saves /\ Last(save_log').error) =>
        /\ Last(save_log').raised
        /\ save_result' = save_result
        /\ saves' = saves + 1
        /\ Last(save_log').opened <= opens(Last(save_log').format)
        /\ UNCHANGED <<tracking_data, last_gaze_point,
                       current_fixation_start, frame_times>>

\* C12: a file error during a save is not caught: the call ends by raising
\* it to its caller, it returns nothing, no file is opened a second time,
\* and the session in memory is as it was before the call.
C12_WriteErrorPropagates == [][C12_Step]_vars

\* A csv save that failed on its second file after frames were recorded:
\* the gaze file is complete, the fixation file is not there, the session
\* is whole and the last return value is that of the save before.
C12_Witness ==
    /\ Len(save_log) = 2
    /\ ~save_log[1].error
    /\ save_log[2].error /\ save_log[2].raised
    /\ save_log[2].format = "csv" /\ save_log[2].opened = 2
    /\ save_log[1].timestamp # save_log[2].timestamp
    /\ save_result = save_log[1].timestamp
    /\ Len(gaze_points) >= 2
    /\ <<"gaze_points", save_log[2].timestamp, "csv">> \in DOMAIN files
    /\ <<"fixations", save_log[2].timestamp, "csv">> \notin DOMAIN files
    /\ frame_count = save_log[2].frame_count


\* C13: when either cascade fails to load, construction ends in an error
\* with none of the session attributes set and no data directory made by
\* the constructor, and no frame is ever processed on that tracker.
C13_FailedConstruction ==
    (eye_cascade = "empty" \/ face_cascade = "empty") =>
        /\ tracker = "failed"
        /\ attributes \cap SessionAttributes = {}
        /\ ~made_dir
        /\ tracker_state = <<None, None, None, None>>
        /\ calls = 0
        /\ eye_centers = <<>>

\* The eye cascade loaded and the face cascade did not: the second check
\* of __init__ raised.
C13_Witness ==
    /\ tracker = "failed"
    /\ eye_cascade = "loaded"
    /\ face_cascade = "empty"
    /\ attributes = CascadeAttributes


\* C14: the demo loop calls add_gaze_point exactly once for every frame
\* it has processed, frames without a gaze point included.
C14_PushPerFrame == Len(pushed) = calls


\* What C17 requires of one step: a frame pushed to the visualizer.
C17_Step ==
    Len(pushed') > Len(pushed) =>
        LET flags == Last(pushed')
            tracker_fixation ==
                /\ gaze_points # <<>>
                /\ gaze_points' # gaze_points
                /\ within_30px(Last(gaze_points'), Last(gaze_points))
            tracker_blink == blinks' # blinks
        IN  /\ flags.is_fixation = tracker_fixation
            /\ flags.is_blink = tracker_blink
            /\ visualizer'.stats.fixation_count =
                  visualizer.stats.fixation_count
                  + (IF tracker_fixation THEN 1 ELSE 0)
            /\ visualizer'.stats.blink_count =
                  visualizer.stats.blink_count
                  + (IF tracker_blink THEN 1 ELSE 0)

\* C17: for every frame pushed to the visualizer, the is_fixation flag is
\* the tracker's own fixation test for the frame (the gaze point less than
\* 30 px from the gaze point of the previous gaze-bearing frame), the
\* is_blink flag tells whether the tracker appended a Blink for the frame,
\* and fixation_count and blink_count count accordingly.
C17_FlagsAgree == [][C17_Step]_vars

\* The blink half of C17 alone.
C17_BlinkFlagStep ==
    Len(pushed') > Len(pushed) =>
        /\ Last(pushed').is_blink = (blinks' # blinks)
        /\ visualizer'.stats.blink_count = visualizer.stats.blink_count

C17_BlinkFlagOnly == [][C17_BlinkFlagStep]_vars

\* Every pushed frame carries is_fixation = TRUE.
C17_AlwaysFixation == \A i \in 1..Len(pushed) : pushed[i].is_fixation


\* The step records a gaze frame less than 30 px from the last gaze frame.
steady_frame ==
    /\ gaze_points # <<>>
    /\ gaze_points' # gaze_points
    /\ within_30px(Last(gaze_points'), Last(gaze_points))

\* What C15 requires of one step taken with a window open at s.
C15_StepFrom(s) ==
    (calls' # calls /\ current_fixation_start = Some(s)) =>
        /\ steady_frame => current_fixation_start' = Some(s)
        /\ current_fixation_start' # Some(s) =>
              /\ gaze_points' # gaze_points
              /\ ~within_30px(Last(gaze_points'), Last(gaze_points))
        /\ (steady_frame /\ Last(frame_times') - s >= 6) =>
              /\ Len(fixations') = Len(fixations) + 1
              /\ Last(fixations').start_time = s

\* C15: once a window is open at s, current_fixation_start stays s on
\* every later frame with a steady gaze point and is changed only by a
\* gaze point 30 px or more away; this for every s, s = 0 included, so a
\* window opened at 0 commits a Fixation with start_time 0 on a steady
\* frame at 0.3 s or later.
C15_WindowKept == [][\A s \in Timestamps : C15_StepFrom(s)]_vars

\* The same for the windows opened at a timestamp other than 0.
C15_NonzeroWindowKept == [][\A s \in Timestamps \ {0} : C15_StepFrom(s)]_vars


\* What C16 requires of one step: a frame in which fewer or more than two
\* pupils are found.
C16_Step ==
    (calls' # calls /\ Len(eye_centers') # 2) =>
        /\ last_gaze_point' = last_gaze_point
        /\ current_fixation_start' = current_fixation_start
        /\ gaze_points' = gaze_points
        /\ fixations' = fixations

\* C16: a frame without a gaze point leaves last_gaze_point and
\* current_fixation_start as they were and appends no GazeSample and no
\* Fixation, so an open window outlasts such frames.
C16_NoGazeFrame == [][C16_Step]_vars

\* A committed Fixation whose interval contains a frame recorded as a
\* blink.
C16_Witness ==
    \E i \in 1..Len(fixations), j \in 1..Len(blinks) :
        /\ fixations[i].start_time < blinks[j].timestamp
        /\ blinks[j].timestamp < fixations[i].end_time


\* The files named with the given reading.
files_of(fs, timestamp) == {n \in DOMAIN fs : n[2] = timestamp}

\* What C18 requires of one step: a save with a format other than 'json'
\* and 'csv'.
C18_Step ==
    (saves' # saves /\ Last(save_log').format \notin {"json", "csv"}) =>
        /\ files' = files
        /\ ~Last(save_log').error
        /\ ~Last(save_log').raised
        /\ UNCHANGED <<tracking_data, last_gaze_point,
                       current_fixation_start, frame_times>>
        /\ save_result' = Last(save_log').timestamp
        /\ \E i \in 1..Len(WallClock) : save_result' = WallClock[i]
        /\ files_of(files', save_result') = files_of(files, save_result')

=============================================================================
